---- MODULE Spec2Model ----
(***************************************************************************)
(* Model of minigrid/envs/maze.py: the Maze_Generator class (randomised    *)
(* Prim's algorithm on a boolean lattice, True = passage, False = wall).   *)
(*                                                                         *)
(* Spec      one construction Maze_Generator(width, height): __init__      *)
(*           allocates the lattice, __generate carves it, one action per   *)
(*           loop iteration, random.choice as nondeterministic choice.     *)
(* FairSpec  Spec with weak fairness of the (synchronous) run.             *)
(* PairSpec  two constructions in a row with the same (width, height).     *)
(* FnSpec    __frontier, __neighbours and __connect called on arbitrary    *)
(*           lattices and arguments.                                       *)
(* EnvSpec   MazeEnv._gen_grid of a square arena: the border, the          *)
(*           generator on the interior, then walls, goal and agent.        *)
(***************************************************************************)
EXTENDS Integers, FiniteSets, Sequences, TLC

\* Largest width / height of a generated lattice.
MaxDim == 5
\* Largest width / height, and largest number of cells, of the arbitrary
\* lattices the helper functions are called on in FnSpec.
FnMaxDim == 5
FnMaxCells == 12
\* Margin of out-of-bounds arguments tried in FnSpec.
ArgMargin == 2

VARIABLES
    width,      \* self._width
    height,     \* self._height
    grid,       \* self.grid: [<<x, y>> -> BOOLEAN], TRUE = passage
    s,          \* the working set of __generate
    pc,         \* position: "start", "loop", "done", "error"; "placed" after
                \* _gen_grid; "fn" in FnSpec
    err,        \* the exception that ended the construction, "" when none
    iters,      \* history: iterations of the while loop so far
    connects,   \* history: calls of __connect so far
    popped,     \* history: coordinates removed from s so far
    gen,        \* PairSpec: which construction is running (1 or 2)
    first,      \* PairSpec: the lattice completed by the first construction
    call,       \* FnSpec: the last helper call, its arguments and its result
    env         \* EnvSpec: the MazeEnv around the generator (size, tiles, goal, agent)

vars == <<width, height, grid, s, pc, err, iters, connects, popped, gen, first, call, env>>

NoCall == [op |-> "none"]

NoEnv == [size |-> 0]

\* The coordinates of a width x height lattice.
Cells(w, h) == (0 .. w - 1) \X (0 .. h - 1)

\* np.zeros((width, height), dtype=bool)
zeros(w, h) == [c \in Cells(w, h) |-> FALSE]

\* The while loop cannot run longer than this in the model.
IterCap == 4 * (MaxDim + 1) * (MaxDim + 1) + 1

----------------------------------------------------------------------------
(* The helper methods, as functions of the lattice g of size w x h.        *)

frontier_any(g, w, h, x, y) ==
    IF x >= 0 /\ x < w /\ y >= 0 /\ y < h
    THEN (IF x > 1 THEN {<<x - 2, y>>} ELSE {})
         \cup (IF x + 2 < w THEN {<<x + 2, y>>} ELSE {})
         \cup (IF y > 1 THEN {<<x, y - 2>>} ELSE {})
         \cup (IF y + 2 < h THEN {<<x, y + 2>>} ELSE {})
    ELSE {}

frontier_off_by_one(g, w, h, x, y) ==
    IF x >= 0 /\ x < w /\ y >= 0 /\ y < h
    THEN (IF x > 2 /\ ~g[<<x - 2, y>>] THEN {<<x - 2, y>>} ELSE {})
         \cup (IF x + 2 < w /\ ~g[<<x + 2, y>>] THEN {<<x + 2, y>>} ELSE {})
         \cup (IF y > 1 /\ ~g[<<x, y - 2>>] THEN {<<x, y - 2>>} ELSE {})
         \cup (IF y + 2 < h /\ ~g[<<x, y + 2>>] THEN {<<x, y + 2>>} ELSE {})
    ELSE {}

\* Maze_Generator.__frontier
frontier(g, w, h, x, y) ==
    IF x >= 0 /\ x < w /\ y >= 0 /\ y < h
    THEN (IF x > 1 /\ ~g[<<x - 2, y>>] THEN {<<x - 2, y>>} ELSE {})
         \cup (IF x + 2 < w /\ ~g[<<x + 2, y>>] THEN {<<x + 2, y>>} ELSE {})
         \cup (IF y > 1 /\ ~g[<<x, y - 2>>] THEN {<<x, y - 2>>} ELSE {})
         \cup (IF y + 2 < h /\ ~g[<<x, y + 2>>] THEN {<<x, y + 2>>} ELSE {})
    ELSE {}

neighbours_any(g, w, h, x, y) ==
    IF x >= 0 /\ x < w /\ y >= 0 /\ y < h
    THEN (IF x > 1 THEN {<<x - 2, y>>} ELSE {})
         \cup (IF x + 2 < w THEN {<<x + 2, y>>} ELSE {})
         \cup (IF y > 1 THEN {<<x, y - 2>>} ELSE {})
         \cup (IF y + 2 < h THEN {<<x, y + 2>>} ELSE {})
    ELSE {}

neighbours_no_up(g, w, h, x, y) ==
    IF x >= 0 /\ x < w /\ y >= 0 /\ y < h
    THEN (IF x > 1 /\ g[<<x - 2, y>>] THEN {<<x - 2, y>>} ELSE {})
         \cup (IF x + 2 < w /\ g[<<x + 2, y>>] THEN {<<x + 2, y>>} ELSE {})
         \cup (IF y > 2 /\ g[<<x, y - 2>>] THEN {<<x, y - 2>>} ELSE {})
         \cup (IF y + 2 < h /\ g[<<x, y + 2>>] THEN {<<x, y + 2>>} ELSE {})
    ELSE {}

\* Maze_Generator.__neighbours
neighbours(g, w, h, x, y) ==
    IF x >= 0 /\ x < w /\ y >= 0 /\ y < h
    THEN (IF x > 1 /\ g[<<x - 2, y>>] THEN {<<x - 2, y>>} ELSE {})
         \cup (IF x + 2 < w /\ g[<<x + 2, y>>] THEN {<<x + 2, y>>} ELSE {})
         \cup (IF y > 1 /\ g[<<x, y - 2>>] THEN {<<x, y - 2>>} ELSE {})
         \cup (IF y + 2 < h /\ g[<<x, y + 2>>] THEN {<<x, y + 2>>} ELSE {})
    ELSE {}

connect_no_midpoint(g, x1, y1, x2, y2) ==
    [g EXCEPT ![<<x1, y1>>] = TRUE]

connect_far_end(g, x1, y1, x2, y2) ==
    LET x == (x1 + x2) \div 2
        y == (y1 + y2) \div 2
    IN  [g EXCEPT ![<<x2, y2>>] = TRUE, ![<<x, y>>] = TRUE]

connect_clears_passage(g, x1, y1, x2, y2) ==
    LET x == (x1 + x2) \div 2
        y == (y1 + y2) \div 2
    IN  [g EXCEPT ![<<x2, y2>>] = FALSE, ![<<x1, y1>>] = TRUE, ![<<x, y>>] = TRUE]

\* Maze_Generator.__connect: the lattice after the call
connect(g, x1, y1, x2, y2) ==
    LET x == (x1 + x2) \div 2
        y == (y1 + y2) \div 2
    IN  [g EXCEPT ![<<x1, y1>>] = TRUE, ![<<x, y>>] = TRUE]

----------------------------------------------------------------------------
(* One construction: Maze_Generator(width, height).                        *)

\* __init__ up to the call of __generate: the lattice is allocated, all wall.
Init ==
    /\ width \in 0 .. MaxDim
    /\ height \in 0 .. MaxDim
    /\ grid = zeros(width, height)
    /\ s = {}
    /\ pc = "start"
    /\ err = ""
    /\ iters = 0
    /\ connects = 0
    /\ popped = {}
    /\ gen = 1
    /\ first = << >>
    /\ call = NoCall
    /\ env = NoEnv

\* __generate before the loop: carve the origin, s = frontier of the origin.
\* self.grid[0][0] raises IndexError when the lattice has no cell (0, 0).
GenerateStart ==
    /\ pc = "start"
    /\ IF <<0, 0>> \in DOMAIN grid
       THEN LET g1 == [grid EXCEPT ![<<0, 0>>] = TRUE]
            IN  /\ grid' = g1
                /\ s' = frontier(g1, width, height, 0, 0)
                /\ pc' = "loop"
                /\ err' = err
       ELSE /\ pc' = "error"
            /\ err' = "IndexError"
            /\ UNCHANGED <<grid, s>>
    /\ UNCHANGED <<width, height, iters, connects, popped, gen, first, call, env>>

\* One iteration of the while loop, (x, y) and (nx, ny) being the two
\* random.choice picks.
GenerateStep ==
    /\ pc = "loop"
    /\ s # {}
    /\ iters < IterCap
    /\ \E c \in s :
         LET x  == c[1]
             y  == c[2]
             ns == neighbours(grid, width, height, x, y)
         IN  \E n \in (IF ns # {} THEN ns ELSE {c}) :
               LET g1 == IF ns # {} THEN connect(grid, x, y, n[1], n[2]) ELSE grid
               IN  /\ grid' = g1
                   /\ s' = (s \ {c}) \cup frontier(g1, width, height, x, y)
                   /\ connects' = IF ns # {} THEN connects + 1 ELSE connects
                   /\ popped' = popped \cup {c}
    /\ iters' = iters + 1
    /\ UNCHANGED <<width, height, pc, err, gen, first, call, env>>

GenerateReturn_early ==
    /\ pc = "loop"
    /\ Cardinality(s) <= 1
    /\ pc' = "done"
    /\ UNCHANGED <<width, height, grid, s, err, iters, connects, popped, gen, first, call, env>>

\* The while loop ends when s is empty; __generate and __init__ return.
GenerateReturn ==
    /\ pc = "loop"
    /\ s = {}
    /\ pc' = "done"
    /\ UNCHANGED <<width, height, grid, s, err, iters, connects, popped, gen, first, call, env>>

Next == GenerateStart \/ GenerateStep \/ GenerateReturn

Spec == Init /\ [][Next]_vars

\* The construction is one synchronous call: it keeps running until it
\* returns or raises.
FairSpec == Spec /\ WF_vars(Next)

----------------------------------------------------------------------------
(* Two constructions in a row with the same arguments.                     *)

\* A second Maze_Generator(width, height) after the first has returned: a
\* fresh all-wall lattice; the first lattice is kept for comparison.
Reconstruct ==
    /\ pc = "done"
    /\ gen = 1
    /\ first' = grid
    /\ gen' = 2
    /\ grid' = zeros(width, height)
    /\ s' = {}
    /\ pc' = "start"
    /\ iters' = 0
    /\ connects' = 0
    /\ popped' = {}
    /\ UNCHANGED <<width, height, err, call, env>>

PairNext == GenerateStart \/ GenerateStep \/ GenerateReturn \/ Reconstruct

PairSpec == Init /\ [][PairNext]_vars

----------------------------------------------------------------------------
(* The helper methods called once on an arbitrary lattice.                 *)

FnInit ==
    /\ width \in 1 .. FnMaxDim
    /\ height \in 1 .. FnMaxDim
    /\ width * height <= FnMaxCells
    /\ grid \in [Cells(width, height) -> BOOLEAN]
    /\ s = {}
    /\ pc = "fn"
    /\ err = ""
    /\ iters = 0
    /\ connects = 0
    /\ popped = {}
    /\ gen = 1
    /\ first = << >>
    /\ call = NoCall
    /\ env = NoEnv

\* The arguments tried: in bounds and up to ArgMargin outside.
ArgX == (0 - ArgMargin) .. (width - 1 + ArgMargin)
ArgY == (0 - ArgMargin) .. (height - 1 + ArgMargin)

\* Two lattice cells that differ by exactly 2 along exactly one axis.
Distance2(c, d) ==
    \/ c[2] = d[2] /\ (c[1] = d[1] + 2 \/ d[1] = c[1] + 2)
    \/ c[1] = d[1] /\ (c[2] = d[2] + 2 \/ d[2] = c[2] + 2)

\* self.__frontier(x, y)
CallFrontier ==
    /\ pc = "fn"
    /\ call = NoCall
    /\ \E x \in ArgX, y \in ArgY :
         call' = [op |-> "frontier", x |-> x, y |-> y, before |-> grid,
                  ret |-> frontier(grid, width, height, x, y)]
    /\ UNCHANGED <<width, height, grid, s, pc, err, iters, connects, popped, gen, first, env>>

\* self.__neighbours(x, y)
CallNeighbours ==
    /\ pc = "fn"
    /\ call = NoCall
    /\ \E x \in ArgX, y \in ArgY :
         call' = [op |-> "neighbours", x |-> x, y |-> y, before |-> grid,
                  ret |-> neighbours(grid, width, height, x, y)]
    /\ UNCHANGED <<width, height, grid, s, pc, err, iters, connects, popped, gen, first, env>>

\* self.__connect(x1, y1, x2, y2) on two cells of the lattice at distance 2
CallConnect ==
    /\ pc = "fn"
    /\ call = NoCall
    /\ \E c \in DOMAIN grid, d \in DOMAIN grid :
         /\ Distance2(c, d)
         /\ grid' = connect(grid, c[1], c[2], d[1], d[2])
         /\ call' = [op |-> "connect", x1 |-> c[1], y1 |-> c[2],
                     x2 |-> d[1], y2 |-> d[2], before |-> grid]
    /\ UNCHANGED <<width, height, s, pc, err, iters, connects, popped, gen, first, env>>

FnNext == CallFrontier \/ CallNeighbours \/ CallConnect

FnSpec == FnInit /\ [][FnNext]_vars

----------------------------------------------------------------------------
(* MazeEnv._gen_grid(width, height) with width = height = size.            *)

\* The tiles of a size x size arena.
ArenaCells(size) == (0 .. size - 1) \X (0 .. size - 1)

\* Grid(width, height): no object anywhere.
EmptyGrid(size) == [c \in ArenaCells(size) |-> "empty"]

\* self.put_obj(obj, i, j): tile (i, j) holds obj, replacing what it held.
put_obj(tiles, obj, i, j) == [tiles EXCEPT ![<<i, j>>] = obj]

\* self.grid.wall_rect(0, 0, width, height): a Wall on every border tile.
wall_rect(tiles, size) ==
    [c \in DOMAIN tiles |->
        IF c[1] = 0 \/ c[1] = size - 1 \/ c[2] = 0 \/ c[2] = size - 1
        THEN "wall" ELSE tiles[c]]

RECURSIVE raster_scan_no_offset(_, _, _, _, _, _, _)
raster_scan_no_offset(g, tiles, w, h, k, lx, ly) ==
    IF k >= (h - 2) * (w - 2)
    THEN [tiles |-> tiles, last_pos_x |-> lx, last_pos_y |-> ly]
    ELSE LET i == k \div (w - 2)
             j == k % (w - 2)
         IN  IF g[<<i, j>>]
             THEN raster_scan_no_offset(g, tiles, w, h, k + 1, lx, ly)
             ELSE raster_scan_no_offset(g, put_obj(tiles, "wall", i, j), w, h, k + 1, j, i)

\* The two nested loops of _gen_grid from their k-th pass on, k = i * (width-2) + j:
\* a Wall at (i+1, j+1) for every wall maze.grid[i][j], whose (j, i) is
\* remembered in (last_pos_x, last_pos_y).
RECURSIVE raster_scan(_, _, _, _, _, _, _)
raster_scan(g, tiles, w, h, k, lx, ly) ==
    IF k >= (h - 2) * (w - 2)
    THEN [tiles |-> tiles, last_pos_x |-> lx, last_pos_y |-> ly]
    ELSE LET i == k \div (w - 2)
             j == k % (w - 2)
         IN  IF g[<<i, j>>]
             THEN raster_scan(g, tiles, w, h, k + 1, lx, ly)
             ELSE raster_scan(g, put_obj(tiles, "wall", i + 1, j + 1), w, h, k + 1, j, i)

\* _gen_grid up to the call of __generate: the arena with its border walls,
\* and the all-wall lattice of Maze_Generator(width - 2, height - 2).
EnvInit ==
    /\ \E size \in 3 .. MaxDim + 2 :
         /\ env = [size |-> size, tiles |-> wall_rect(EmptyGrid(size), size),
                   goal_pos |-> << >>, agent_pos |-> << >>]
         /\ width = size - 2
         /\ height = size - 2
    /\ grid = zeros(width, height)
    /\ s = {}
    /\ pc = "start"
    /\ err = ""
    /\ iters = 0
    /\ connects = 0
    /\ popped = {}
    /\ gen = 1
    /\ first = << >>
    /\ call = NoCall

\* _gen_grid after the generator has returned: the walls of the maze, the
\* goal at (last_pos_x, last_pos_y), the agent at agent_start_pos = (1, 1).
GenGridPlace ==
    /\ pc = "done"
    /\ env # NoEnv
    /\ LET r == raster_scan(grid, env.tiles, env.size, env.size, 0, 0, 0)
       IN  env' = [env EXCEPT
                     !.tiles = put_obj(r.tiles, "goal", r.last_pos_x, r.last_pos_y),
                     !.goal_pos = <<r.last_pos_x, r.last_pos_y>>,
                     !.agent_pos = <<1, 1>>]
    /\ pc' = "placed"
    /\ UNCHANGED <<width, height, grid, s, err, iters, connects, popped, gen, first, call>>

EnvNext == GenerateStart \/ GenerateStep \/ GenerateReturn \/ GenGridPlace

EnvSpec == EnvInit /\ [][EnvNext]_vars

----------------------------------------------------------------------------
(* Definitions the properties are stated with.                             *)

\* The passage cells of the lattice.
Passages == {c \in DOMAIN grid : grid[c]}

\* Two cells one step up, down, left or right of each other.
Adjacent4(c, d) ==
    \/ c[1] = d[1] /\ (c[2] = d[2] + 1 \/ d[2] = c[2] + 1)
    \/ c[2] = d[2] /\ (c[1] = d[1] + 1 \/ d[1] = c[1] + 1)

\* The cells of `cells` reachable from `seen` by 4-adjacent steps inside `cells`.
RECURSIVE ReachableIn(_, _)
ReachableIn(cells, seen) ==
    LET more == {d \in cells \ seen : \E c \in seen : Adjacent4(c, d)}
    IN  IF more = {} THEN seen ELSE ReachableIn(cells, seen \cup more)

\* Passages reachable from the origin through passages.
FromOrigin == IF <<0, 0>> \in Passages THEN ReachableIn(Passages, {<<0, 0>>}) ELSE {}

\* The carved lattice nodes: the origin and the popped cells that are passages.
Nodes == {c \in Passages : c = <<0, 0>> \/ c \in popped}

\* The carved midpoint cells: the passages that are not nodes.
Midpoints == Passages \ Nodes

\* Pairs of 4-adjacent passages, each pair once.
PassageEdges == {e \in Passages \X Passages :
                    /\ Adjacent4(e[1], e[2])
                    /\ (e[1][1] < e[2][1] \/ e[1][2] < e[2][2])}

AtLoopBoundary == pc \in {"loop", "done"}

----------------------------------------------------------------------------
(* C1 - connectivity.                                                      *)

\* C1: for width >= 2 and height >= 2, at every loop boundary of __generate
\* and at completion, every passage cell is reachable from (0,0) by a path of
\* 4-adjacent passage cells.
C1_Connected ==
    (AtLoopBoundary /\ width >= 2 /\ height >= 2) => Passages = FromOrigin

C1_Witness ==
    /\ pc = "done" /\ width = 5 /\ height = 5
    /\ Cardinality(Passages) = 17
    /\ grid[<<4, 4>>]

(* C2 - the carved passages form a tree.                                   *)

\* C2: at every loop boundary and at completion the number of carved lattice
\* nodes equals the number of Connect events plus one, the number of carved
\* midpoints equals the number of nodes minus one, and the passages contain
\* no cycle: being connected, they have exactly one 4-adjacent pair fewer
\* than cells, and every midpoint lies between two nodes.
C2_Tree ==
    AtLoopBoundary =>
        /\ Cardinality(Nodes) = connects + 1
        /\ Cardinality(Midpoints) = Cardinality(Nodes) - 1
        /\ Cardinality(PassageEdges) = Cardinality(Passages) - 1
        /\ Passages = FromOrigin

C2_Witness ==
    /\ pc = "loop" /\ width = 5 /\ height = 4
    /\ connects = 4 /\ Cardinality(Midpoints) = 4
    /\ s # {}

(* C3 - termination.                                                       *)

\* C3: for width and height >= 1 the while loop ends with the working set
\* empty, after at most 4 * width * height iterations.
C3_Terminates ==
    /\ [](iters <= 4 * width * height)
    /\ [](pc = "done" => s = {})
    /\ ((width >= 1 /\ height >= 1) => <>(pc = "done"))

C3_Witness ==
    /\ pc = "done" /\ s = {} /\ width = 5 /\ height = 5 /\ iters = 8

(* C4 - small dimensions.                                                  *)

\* C4: a construction with width or height of 0 or 1 fails before generation
\* starts: it never enters the loop, never completes, and no cell is carved.
\* (The name of the error is left open here: the code has no InvalidDimensions
\* error, a lattice without cell (0,0) ends in Python's IndexError.)
C4_SmallDimensionsRejected ==
    (width < 2 \/ height < 2) =>
        /\ pc \in {"start", "error"}
        /\ Passages = {}

(* C5 - the completed lattice.                                             *)

\* C5: when generation has completed, (0,0) is a passage and the number of
\* passage cells is odd, at least 1 and at most width * height.
C5_OddPassageCount ==
    pc = "done" =>
        /\ grid[<<0, 0>>]
        /\ Cardinality(Passages) % 2 = 1
        /\ Cardinality(Passages) >= 1
        /\ Cardinality(Passages) <= width * height

C5_Witness ==
    /\ pc = "done" /\ width = 5 /\ height = 5
    /\ grid[<<0, 0>>] /\ Cardinality(Passages) = 17

(* C6 - monotonic carving.                                                 *)

\* C6: every cell starts as wall, and a cell that is a passage stays a
\* passage in every later state.
C6_Monotonic ==
    /\ (\A c \in DOMAIN grid : ~grid[c])
    /\ [][\A c \in DOMAIN grid : grid[c] => grid'[c]]_vars

C6_Witness ==
    /\ pc = "loop" /\ iters >= 2 /\ Cardinality(Passages) >= 5 /\ s # {}

(* C7 - determinism.                                                       *)

\* C7: two generators constructed with identical arguments produce
\* bit-identical completed lattices (the constructor takes width and height
\* only; there is no seed argument).
C7_Deterministic ==
    (gen = 2 /\ pc = "done") => grid = first

(* C8 - __frontier.                                                        *)

\* The cells (x-2,y), (x+2,y), (x,y-2), (x,y+2) that are inside the lattice.
InBoundsAtDistance2(x, y) ==
    {c \in DOMAIN grid : Distance2(c, <<x, y>>)}

\* C8: for every lattice and every in-bounds (x, y), __frontier(x, y) returns
\* exactly the in-bounds cells at distance 2 along one axis that are walls;
\* for an out-of-bounds (x, y) it returns the empty set; the lattice is left
\* unchanged.
C8_Frontier ==
    call.op = "frontier" =>
        /\ grid = call.before
        /\ IF <<call.x, call.y>> \in DOMAIN grid
           THEN call.ret = {c \in InBoundsAtDistance2(call.x, call.y) : ~grid[c]}
           ELSE call.ret = {}

C8_Witness ==
    /\ call.op = "frontier"
    /\ call.x = 2 /\ call.y = 0 /\ width = 5
    /\ call.ret = {<<0, 0>>}
    /\ grid[<<4, 0>>]

(* C9 - __neighbours against __frontier.                                   *)

\* C9: for every lattice and every in-bounds (x, y), __neighbours(x, y) and
\* __frontier(x, y) are disjoint and their union is the set of in-bounds
\* cells at distance 2 along one axis; __neighbours returns the passages
\* among them and leaves the lattice unchanged.
C9_NeighboursFrontierPartition ==
    (call.op = "neighbours" /\ <<call.x, call.y>> \in DOMAIN grid) =>
        LET fs == frontier(grid, width, height, call.x, call.y)
            d2 == InBoundsAtDistance2(call.x, call.y)
        IN  /\ grid = call.before
            /\ call.ret \cap fs = {}
            /\ call.ret \cup fs = d2
            /\ call.ret = {c \in d2 : grid[c]}

C9_Witness ==
    /\ call.op = "neighbours"
    /\ call.x = 1 /\ call.y = 2 /\ width = 2 /\ height = 5
    /\ call.ret = {<<1, 0>>}
    /\ ~grid[<<1, 4>>]

(* C10 - __connect.                                                        *)

\* C10: __connect(x1, y1, x2, y2) on two cells that differ by exactly 2 along
\* exactly one axis sets (x1, y1) and the midpoint cell to passage and leaves
\* every other cell unchanged.
C10_ConnectFrame ==
    call.op = "connect" =>
        /\ DOMAIN grid = DOMAIN call.before
        /\ \A c \in DOMAIN grid :
             IF \/ c = <<call.x1, call.y1>>
                \/ (2 * c[1] = call.x1 + call.x2 /\ 2 * c[2] = call.y1 + call.y2)
             THEN grid[c]
             ELSE grid[c] = call.before[c]

C10_Witness ==
    /\ call.op = "connect"
    /\ call.x1 = 2 /\ call.y1 = 0 /\ call.x2 = 0 /\ call.y2 = 0
    /\ ~call.before[<<2, 0>>] /\ ~call.before[<<1, 0>>] /\ ~call.before[<<0, 0>>]
    /\ grid[<<2, 0>>] /\ grid[<<1, 0>>] /\ ~grid[<<0, 0>>]

(* C11 - the working set.                                                  *)

\* C11: in every reachable state of __generate every coordinate in the
\* working set s is an in-bounds cell that is a wall and has at least one
\* passage at distance exactly 2 along one axis.
C11_WorkingSetIsFrontier ==
    \A c \in s :
        /\ c \in DOMAIN grid
        /\ ~grid[c]
        /\ \E d \in Passages : Distance2(c, d)

C11_Witness ==
    /\ pc = "loop" /\ width = 5 /\ height = 5
    /\ Cardinality(s) = 3 /\ iters = 4

(* C12 - a pop without a carved neighbour.                                 *)

\* C12 (as claimed): some iteration of the loop pops a coordinate whose
\* __neighbours set is empty, so the iteration calls no __connect; read on a
\* single run: a run that iterates at all eventually has an iteration
\* without a Connect.
C12_SomePopFindsNoNeighbour ==
    ((width >= 3 /\ height >= 1) \/ (width >= 1 /\ height >= 3))
        => <>(iters > connects)

\* C12 (amended): no iteration ever pops a coordinate with an empty
\* __neighbours set: every iteration calls __connect exactly once and carves
\* exactly the popped cell and one midpoint.
C12_EveryPopConnects ==
    /\ [](connects = iters)
    /\ [][iters' = iters + 1 =>
            /\ connects' = connects + 1
            /\ Cardinality({c \in DOMAIN grid : grid'[c] /\ ~grid[c]}) = 2
            /\ \E c \in s : ~grid[c] /\ grid'[c] /\ c \notin s']_vars

C12_Witness ==
    /\ pc = "done" /\ width = 5 /\ height = 5 /\ iters = 8 /\ connects = 8

(* C13 - the preconditions of Connect.                                     *)

\* C13: whenever __generate calls __connect(x, y, nx, ny), (x, y) is a wall,
\* (nx, ny) is a passage, the two differ by exactly 2 along exactly one
\* axis, and the midpoint between them is a wall; the step carves (x, y) and
\* that midpoint.
C13_ConnectPreconditions ==
    [][connects' # connects =>
         \E c \in s, n \in DOMAIN grid, m \in DOMAIN grid :
            /\ ~grid[c]
            /\ grid[n]
            /\ Distance2(c, n)
            /\ 2 * m[1] = c[1] + n[1] /\ 2 * m[2] = c[2] + n[2]
            /\ ~grid[m]
            /\ grid' = [grid EXCEPT ![c] = TRUE, ![m] = TRUE]
            /\ popped' = popped \cup {c}]_vars

C13_Witness ==
    /\ pc = "loop" /\ connects = 3 /\ width = 3 /\ height = 5
    /\ grid[<<2, 4>>] /\ grid[<<2, 3>>] /\ ~grid[<<1, 4>>]

(* C14 - completion.                                                       *)

EvenCells == {c \in DOMAIN grid : c[1] % 2 = 0 /\ c[2] % 2 = 0}
OddCells == {c \in DOMAIN grid : c[1] % 2 = 1 /\ c[2] % 2 = 1}

\* C14: generation is complete exactly when no growable cell remains: the
\* working set is empty exactly when every cell with both coordinates even
\* is a passage, and when __generate has returned every such cell is a
\* passage with an empty __frontier and every cell with both coordinates odd
\* is a wall.
C14_CompleteWhenNothingGrowable ==
    /\ AtLoopBoundary => (s = {} <=> \A c \in EvenCells : grid[c])
    /\ pc = "done" =>
          /\ \A c \in EvenCells :
                grid[c] /\ frontier(grid, width, height, c[1], c[2]) = {}
          /\ \A c \in OddCells : ~grid[c]

C14_Witness ==
    /\ pc = "done" /\ width = 5 /\ height = 4
    /\ grid[<<4, 2>>] /\ ~grid[<<3, 3>>] /\ ~grid[<<1, 1>>]

(* C15 - every coordinate is popped once.                                  *)

\* ceil(n / 2) for n >= 0
HalfUp(n) == (n + 1) \div 2

\* C15: no coordinate is removed from the working set more than once: a
\* popped coordinate is never in the working set again, every iteration pops
\* a coordinate not popped before, and the loop has run exactly
\* ceil(width/2) * ceil(height/2) - 1 iterations when it ends.
C15_PoppedOnce ==
    /\ s \cap popped = {}
    /\ Cardinality(popped) = iters
    /\ pc = "done" => iters = HalfUp(width) * HalfUp(height) - 1

C15_Witness ==
    /\ pc = "done" /\ width = 4 /\ height = 5
    /\ iters = 5 /\ Cardinality(popped) = 5

(* C16 - agent start and goal in the arena.                                *)

\* The walls of the generated lattice.
MazeWalls == {c \in DOMAIN grid : ~grid[c]}

\* The wall maze.grid[i][j] found last by a scan with i outer and j inner.
LastWall ==
    CHOOSE c \in MazeWalls :
        \A d \in MazeWalls : d[1] < c[1] \/ (d[1] = c[1] /\ d[2] <= c[2])

\* The arena tiles that hold no Wall.
FreeTiles == {c \in DOMAIN env.tiles : env.tiles[c] # "wall"}

\* C16: in a square arena of size >= 4, after _gen_grid the agent start
\* (1,1) is not a Wall, the Goal is at (j, i) of the last wall
\* maze.grid[i][j] of the raster scan, and the Goal is reachable from (1,1)
\* by 4-adjacent steps through tiles that hold no Wall.
C16_GoalReachable ==
    (pc = "placed" /\ env.size >= 4) =>
        /\ env.agent_pos = <<1, 1>>
        /\ env.tiles[<<1, 1>>] # "wall"
        /\ env.goal_pos = <<LastWall[2], LastWall[1]>>
        /\ env.tiles[env.goal_pos] = "goal"
        /\ env.goal_pos \in ReachableIn(FreeTiles, {<<1, 1>>})

C16_Witness ==
    /\ pc = "placed" /\ env.size = 7
    /\ env.goal_pos = <<3, 4>>
    /\ env.tiles[<<3, 4>>] = "goal"

(* C17 - the goal and the corner.                                          *)

\* C17: _gen_grid places the Goal in the bottom-right corner of the arena
\* interior, at (width - 2, height - 2), for every generated maze.
C17_GoalInCorner ==
    pc = "placed" => env.goal_pos = <<env.size - 2, env.size - 2>>

====
